---- MODULE Spec2Model ----
(***************************************************************************)
(* Model of code/run_capsule.py, the hybrid job dispatcher: argument       *)
(* resolution, discovery of recording.zarr folders, fixed-seed             *)
(* subsampling, and the per-recording loop that loads, optionally          *)
(* truncates, and writes the job_ / gt_ JSON files.                        *)
(*                                                                         *)
(* Conventions                                                             *)
(*   - a directory name is a sequence of characters, a path below          *)
(*     ../data is a sequence of names; a recording.zarr folder is          *)
(*     identified by the path of its parent directory;                     *)
(*   - Python's None is the empty set, a present value v is {v};           *)
(*   - DEBUG_DURATION is kept in milliseconds, duration in hundredths of   *)
(*     a second (np.round(..., 2)), both as exact integers;                *)
(*   - spikeinterface and numpy are outside the repository: a load or a    *)
(*     frame_slice may fail, and the seed-0 draw of rng.choice is a fixed  *)
(*     but unknown injective sequence of positions chosen in Init.         *)
(***************************************************************************)
EXTENDS Integers, Sequences, FiniteSets, TLC

VARIABLES
    args,            \* parsed command line (argparse namespace)
    data,            \* the tree under ../data: parent path -> [sorting, fs, n]
    rng_choice,      \* positions drawn by default_rng(seed=0).choice
    pc,              \* position of the script
    err,             \* exception that ended the run, "" if none
    DEBUG,
    DEBUG_DURATION,
    MAX_RECORDINGS,
    dirs,            \* output folders created so far
    zarr_folders,
    pos,             \* index of recording_zarr_folder in zarr_folders
    i,
    recording,       \* [fs, n] of the loaded (possibly sliced) recording
    rec_end,         \* end_frame passed to recording.frame_slice
    gt_sorting,      \* end frame of the ground-truth sorting, {} if unsliced
    duration,
    job_dict,
    disk,            \* files below ../results: [dir, file] -> content
    writes,          \* files written by this run, in order
    reported,        \* count logged by "Generated {i} hybrid config files"
    runs,            \* number of invocations of the script so far
    prev_selected    \* folders selected by the previous invocation

vars == <<args, data, rng_choice, pc, err, DEBUG, DEBUG_DURATION, MAX_RECORDINGS,
          dirs, zarr_folders, pos, i, recording, rec_end, gt_sorting, duration,
          job_dict, disk, writes, reported, runs, prev_selected>>

----------------------------------------------------------------------------
(* Bounds *)

MaxMarkers == 3
MaxCap == 2
MaxNameChars == 4
MaxDurMs == 40
MaxSamples == 12
MaxRuns == 2

----------------------------------------------------------------------------
(* Arithmetic *)

Min(a, b) == IF a <= b THEN a ELSE b

Abs(a) == IF a >= 0 THEN a ELSE -a

\* Python int(num/den) for den > 0: truncation toward zero.
Trunc(num, den) == IF num >= 0 THEN num \div den ELSE -((-num) \div den)

\* rint(num/den) for num >= 0, den > 0: round half to even (np.round).
RoundHalfEven(num, den) ==
    LET q == num \div den
        r == num % den
    IN  IF 2 * r < den THEN q
        ELSE IF 2 * r > den THEN q + 1
        ELSE IF q % 2 = 0 THEN q ELSE q + 1

\* Default of --debug-duration, in seconds.
DefaultDebugDuration == 30

Millis(seconds) == 1000 * seconds

----------------------------------------------------------------------------
(* Paths and names *)

DataFolder == << <<".", ".">>, <<"d", "a", "t", "a">> >>

RecordingMarker == <<"recording.zarr">>

\* Path(root) / d for a parent directory p below the data folder.
RecordingPath(p) == DataFolder \o p \o <<RecordingMarker>>

\* recording_zarr_folder.parents[1].name
SessionName(p) ==
    LET full == RecordingPath(p) IN full[Len(full) - 2]

\* recording_zarr_folder.parent.name
CaseName(p) ==
    LET full == RecordingPath(p) IN full[Len(full) - 1]

Separator == <<"_", "_">>

\* Faulty variant of JobName: a single underscore as separator.
JobNameSingleUnderscore(session, case) == session \o <<"_">> \o case

\* f"{job_dict['session_name']}__{job_dict['recording_name']}"
JobName(session, case) == session \o Separator \o case

NameOf(p) == JobName(SessionName(p), CaseName(p))

JobFile(name) == <<"j", "o", "b", "_">> \o name \o <<".json">>

GtFile(name) == <<"g", "t", "_">> \o name \o <<".json">>

----------------------------------------------------------------------------
(* Argument resolution *)

None == {}

Val(o) == CHOOSE v \in o : TRUE

\* Python's "a or b" for an optional a (None is falsy, a given string is not).
PyOr(a, b) == IF a # None THEN a ELSE b

\* str.lower() on the spellings the positional debug argument is given in.
Lower(s) ==
    CASE s \in {"true", "True", "TRUE"} -> "true"
      [] s \in {"false", "False"} -> "false"
      [] OTHER -> s

\* json.loads(PARAMS), falling back to the file at that path.
ParamsLoaded(a) == a.params \in {"json", "file"}

\* DEBUG, DEBUG_DURATION, MAX_RECORDINGS as resolved by the script, or the
\* exception raised while resolving them.
Resolve(a) ==
    IF a.params # "absent"
    THEN IF ~ParamsLoaded(a)
         THEN [err |-> "ValueError", debug |-> FALSE, duration |-> 0, max |-> None]
         ELSE IF a.blob.debug_duration = None
         THEN [err |-> "TypeError", debug |-> FALSE, duration |-> 0, max |-> None]
         ELSE [err |-> "",
               debug |-> IF a.blob.debug = None THEN FALSE ELSE Val(a.blob.debug),
               duration |-> Val(a.blob.debug_duration),
               max |-> a.blob.max_recordings]
    ELSE LET m == PyOr(a.static_max_recordings, a.max_recordings)
         IN  [err |-> "",
              debug |-> IF a.static_debug # None
                        THEN Lower(Val(a.static_debug)) = "true"
                        ELSE a.debug,
              duration |-> Val(PyOr(a.static_debug_duration, {a.debug_duration})),
              max |-> IF m # None /\ Val(m) = -1 THEN None ELSE m]

----------------------------------------------------------------------------
(* Discovery *)

IsPrefix(d, p) == Len(d) <= Len(p) /\ SubSeq(p, 1, Len(d)) = d

Perms(S) ==
    {s \in [1..Cardinality(S) -> S] :
        \A a, b \in 1..Cardinality(S) : a # b => s[a] # s[b]}

\* os.walk is top-down: a directory's own recording.zarr is appended when the
\* directory is visited, then each subdirectory is walked to the end before
\* the next one; the order of the subdirectories is the filesystem's.
IsWalkOrder(ord) ==
    LET n == Len(ord)
        Dirs == UNION {{SubSeq(ord[j], 1, l) : l \in 0..Len(ord[j])} : j \in 1..n}
    IN  /\ \A a, b \in 1..n :
              (a # b /\ IsPrefix(ord[a], ord[b])) => a < b
        /\ \A d \in Dirs :
              \A a, b \in 1..n :
                  (a < b /\ IsPrefix(d, ord[a]) /\ IsPrefix(d, ord[b]))
                      => \A j \in a..b : IsPrefix(d, ord[j])

WalkOrders(markers) == {ord \in Perms(markers) : IsWalkOrder(ord)}

\* rng.choice(zarr_folders, size=size, replace=False)
Choice(folders, size) == [j \in 1..size |-> folders[rng_choice[j]]]

\* The draws the seed-0 generator can make for a population of n and the
\* size the arguments ask for: injective sequences of positions.
RngDraws(n, max) ==
    IF max # None /\ Val(max) >= 0 /\ Val(max) < n
    THEN {s \in [1..Val(max) -> 1..n] :
             \A a, b \in 1..Val(max) : a # b => s[a] # s[b]}
    ELSE {<<>>}

----------------------------------------------------------------------------
(* Truncation and the job descriptor *)

\* Faulty variant of EndFrame: the end frame is not clamped to the recording.
EndFrameNoClamp(d, rec) == Trunc(d * rec.fs, 1000)

\* min(int(DEBUG_DURATION * recording.sampling_frequency), recording.get_num_samples())
EndFrame(d, rec) == Min(Trunc(d * rec.fs, 1000), rec.n)

\* Faulty variant of FrameSlice: end_frame taken as inclusive.
FrameSliceInclusive(rec, start_frame, end_frame) ==
    [fs |-> rec.fs, n |-> end_frame - start_frame + 1]

\* recording.frame_slice(start_frame, end_frame)
FrameSlice(rec, start_frame, end_frame) ==
    [fs |-> rec.fs, n |-> end_frame - start_frame]

\* np.round(recording.get_total_duration(), 2), in hundredths of a second
TotalDuration(rec) == RoundHalfEven(100 * rec.n, rec.fs)

\* dict(session_name=..., recording_name=..., recording_dict=..., ...)
JobDict(p, rec, dur, debug) ==
    [session_name |-> SessionName(p),
     recording_name |-> CaseName(p),
     recording_dict |-> [folder |-> p \o <<RecordingMarker>>, num_samples |-> rec.n],
     duration |-> dur,
     input_folder |-> SessionName(p),
     debug |-> debug]

\* job_dict["recording_name"] = f"{session_name}__{recording_name}"
Renamed(jd) ==
    [jd EXCEPT !.recording_name = JobName(jd.session_name, jd.recording_name)]

\* open(folder / file, "w") and dump: the file is created or overwritten.
WriteFile(d, dir, file, content) ==
    LET key == [dir |-> dir, file |-> file]
    IN  [f \in DOMAIN d \cup {key} |-> IF f = key THEN content ELSE d[f]]

RecordingsJobContent(jd) == jd

\* Faulty variant of FlattenedJobContent: the copy is dumped with the name the
\* dict had before line 161 rewrote it.
FlattenedJobContentBeforeRename(jd) ==
    [jd EXCEPT !.recording_name =
        CaseName(SubSeq(jd.recording_dict.folder, 1, Len(jd.recording_dict.folder) - 1))]

FlattenedJobContent(jd) == jd

GtContent(p, gt) == [folder |-> p \o <<"sorting.zarr">>, end_frame |-> gt]

----------------------------------------------------------------------------
(* The script, one action per step *)

\* Lines 63-90: resolve the parameters, or raise.
ParseArgs ==
    /\ pc = "parse"
    /\ Resolve(args).err = ""
    /\ DEBUG' = Resolve(args).debug
    /\ DEBUG_DURATION' = Resolve(args).duration
    /\ MAX_RECORDINGS' = Resolve(args).max
    /\ pc' = "mkdir"
    /\ UNCHANGED <<args, data, rng_choice, err, dirs, zarr_folders, pos, i, recording,
                   rec_end, gt_sorting, duration, job_dict, disk, writes, reported,
                   runs, prev_selected>>

ParseArgsRaises ==
    /\ pc = "parse"
    /\ Resolve(args).err # ""
    /\ err' = Resolve(args).err
    /\ pc' = "failed"
    /\ UNCHANGED <<args, data, rng_choice, DEBUG, DEBUG_DURATION, MAX_RECORDINGS, dirs,
                   zarr_folders, pos, i, recording, rec_end, gt_sorting, duration,
                   job_dict, disk, writes, reported, runs, prev_selected>>

\* Lines 102-105
MakeDirs ==
    /\ pc = "mkdir"
    /\ dirs' = dirs \cup {"recordings", "flattened"}
    /\ pc' = "walk"
    /\ UNCHANGED <<args, data, rng_choice, err, DEBUG, DEBUG_DURATION, MAX_RECORDINGS,
                   zarr_folders, pos, i, recording, rec_end, gt_sorting, duration,
                   job_dict, disk, writes, reported, runs, prev_selected>>

\* Lines 108-114
Walk ==
    /\ pc = "walk"
    /\ zarr_folders' \in WalkOrders(DOMAIN data)
    /\ i' = 0
    /\ pc' = "subsample"
    /\ UNCHANGED <<args, data, rng_choice, err, DEBUG, DEBUG_DURATION, MAX_RECORDINGS,
                   dirs, pos, recording, rec_end, gt_sorting, duration, job_dict, disk,
                   writes, reported, runs, prev_selected>>

\* Line 117
MustSample == MAX_RECORDINGS # None /\ Val(MAX_RECORDINGS) < Len(zarr_folders)

\* Lines 117-120, the sample is drawn
Subsample ==
    /\ pc = "subsample"
    /\ MustSample
    /\ Val(MAX_RECORDINGS) >= 0
    /\ zarr_folders' = Choice(zarr_folders, Val(MAX_RECORDINGS))
    /\ pos' = 1
    /\ pc' = "loop"
    /\ UNCHANGED <<args, data, rng_choice, err, DEBUG, DEBUG_DURATION, MAX_RECORDINGS,
                   dirs, i, recording, rec_end, gt_sorting, duration, job_dict, disk,
                   writes, reported, runs, prev_selected>>

\* Line 120 with a negative size: numpy raises ValueError
SubsampleRaises ==
    /\ pc = "subsample"
    /\ MustSample
    /\ Val(MAX_RECORDINGS) < 0
    /\ err' = "ValueError"
    /\ pc' = "failed"
    /\ UNCHANGED <<args, data, rng_choice, DEBUG, DEBUG_DURATION, MAX_RECORDINGS, dirs,
                   zarr_folders, pos, i, recording, rec_end, gt_sorting, duration,
                   job_dict, disk, writes, reported, runs, prev_selected>>

\* Line 117, condition false
NoSubsample ==
    /\ pc = "subsample"
    /\ ~MustSample
    /\ pos' = 1
    /\ pc' = "loop"
    /\ UNCHANGED <<args, data, rng_choice, err, DEBUG, DEBUG_DURATION, MAX_RECORDINGS,
                   dirs, zarr_folders, i, recording, rec_end, gt_sorting, duration,
                   job_dict, disk, writes, reported, runs, prev_selected>>

\* Faulty variant of HasSorting: the sibling check always passes.
HasSortingUnchecked(p) == TRUE

\* sorting_zarr_folder.is_dir()
HasSorting(p) == data[p].sorting

\* Lines 122-125: the folder has no sorting.zarr beside it
SkipPair ==
    /\ pc = "loop"
    /\ pos <= Len(zarr_folders)
    /\ ~HasSorting(zarr_folders[pos])
    /\ pos' = pos + 1
    /\ UNCHANGED <<args, data, rng_choice, pc, err, DEBUG, DEBUG_DURATION,
                   MAX_RECORDINGS, dirs, zarr_folders, i, recording, rec_end,
                   gt_sorting, duration, job_dict, disk, writes, reported, runs,
                   prev_selected>>

\* Lines 122-127
NextPair ==
    /\ pc = "loop"
    /\ pos <= Len(zarr_folders)
    /\ HasSorting(zarr_folders[pos])
    /\ pc' = "load"
    /\ UNCHANGED <<args, data, rng_choice, err, DEBUG, DEBUG_DURATION, MAX_RECORDINGS,
                   dirs, zarr_folders, pos, i, recording, rec_end, gt_sorting, duration,
                   job_dict, disk, writes, reported, runs, prev_selected>>

\* Lines 128-129
Load ==
    /\ pc = "load"
    /\ recording' = [fs |-> data[zarr_folders[pos]].fs, n |-> data[zarr_folders[pos]].n]
    /\ gt_sorting' = None
    /\ pc' = "truncate"
    /\ UNCHANGED <<args, data, rng_choice, err, DEBUG, DEBUG_DURATION, MAX_RECORDINGS,
                   dirs, zarr_folders, pos, i, rec_end, duration, job_dict, disk,
                   writes, reported, runs, prev_selected>>

\* Faulty variant of LoadRaises: the failure is swallowed and the loop goes on.
LoadRaisesContinues ==
    /\ pc = "load"
    /\ err' = "LoadError"
    /\ pos' = pos + 1
    /\ pc' = "loop"
    /\ UNCHANGED <<args, data, rng_choice, DEBUG, DEBUG_DURATION, MAX_RECORDINGS, dirs,
                   zarr_folders, i, recording, rec_end, gt_sorting, duration,
                   job_dict, disk, writes, reported, runs, prev_selected>>

\* Lines 128-129: si.load raises
LoadRaises ==
    /\ pc = "load"
    /\ err' = "LoadError"
    /\ pc' = "failed"
    /\ UNCHANGED <<args, data, rng_choice, DEBUG, DEBUG_DURATION, MAX_RECORDINGS, dirs,
                   zarr_folders, pos, i, recording, rec_end, gt_sorting, duration,
                   job_dict, disk, writes, reported, runs, prev_selected>>

\* Lines 131-144
Truncate ==
    /\ pc = "truncate"
    /\ DEBUG
    /\ LET end == EndFrame(DEBUG_DURATION, recording)
           sliced == FrameSlice(recording, 0, end)
       IN  /\ rec_end' = {end}
           /\ recording' = sliced
           /\ duration' = TotalDuration(sliced)
           /\ gt_sorting' = {EndFrame(DEBUG_DURATION, sliced)}
    /\ pc' = "build"
    /\ UNCHANGED <<args, data, rng_choice, err, DEBUG, DEBUG_DURATION, MAX_RECORDINGS,
                   dirs, zarr_folders, pos, i, job_dict, disk, writes, reported, runs,
                   prev_selected>>

\* Lines 132-144: frame_slice raises
TruncateRaises ==
    /\ pc = "truncate"
    /\ DEBUG
    /\ err' = "SliceError"
    /\ pc' = "failed"
    /\ UNCHANGED <<args, data, rng_choice, DEBUG, DEBUG_DURATION, MAX_RECORDINGS, dirs,
                   zarr_folders, pos, i, recording, rec_end, gt_sorting, duration,
                   job_dict, disk, writes, reported, runs, prev_selected>>

\* Lines 145-146
NoTruncate ==
    /\ pc = "truncate"
    /\ ~DEBUG
    /\ rec_end' = None
    /\ duration' = TotalDuration(recording)
    /\ pc' = "build"
    /\ UNCHANGED <<args, data, rng_choice, err, DEBUG, DEBUG_DURATION, MAX_RECORDINGS,
                   dirs, zarr_folders, pos, i, recording, gt_sorting, job_dict, disk,
                   writes, reported, runs, prev_selected>>

\* Lines 148-161
BuildJob ==
    /\ pc = "build"
    /\ job_dict' = Renamed(JobDict(zarr_folders[pos], recording, duration, DEBUG))
    /\ pc' = "write_recordings"
    /\ UNCHANGED <<args, data, rng_choice, err, DEBUG, DEBUG_DURATION, MAX_RECORDINGS,
                   dirs, zarr_folders, pos, i, recording, rec_end, gt_sorting, duration,
                   disk, writes, reported, runs, prev_selected>>

\* Lines 162-163
WriteRecordingsJob ==
    /\ pc = "write_recordings"
    /\ disk' = WriteFile(disk, "recordings", JobFile(job_dict.recording_name),
                         RecordingsJobContent(job_dict))
    /\ writes' = Append(writes, [dir |-> "recordings",
                                 file |-> JobFile(job_dict.recording_name)])
    /\ pc' = "write_flattened"
    /\ UNCHANGED <<args, data, rng_choice, err, DEBUG, DEBUG_DURATION, MAX_RECORDINGS,
                   dirs, zarr_folders, pos, i, recording, rec_end, gt_sorting, duration,
                   job_dict, reported, runs, prev_selected>>

\* Lines 164-165
WriteFlattenedJob ==
    /\ pc = "write_flattened"
    /\ disk' = WriteFile(disk, "flattened", JobFile(job_dict.recording_name),
                         FlattenedJobContent(job_dict))
    /\ writes' = Append(writes, [dir |-> "flattened",
                                 file |-> JobFile(job_dict.recording_name)])
    /\ pc' = "write_gt"
    /\ UNCHANGED <<args, data, rng_choice, err, DEBUG, DEBUG_DURATION, MAX_RECORDINGS,
                   dirs, zarr_folders, pos, i, recording, rec_end, gt_sorting, duration,
                   job_dict, reported, runs, prev_selected>>

\* Lines 166-168
WriteGt ==
    /\ pc = "write_gt"
    /\ disk' = WriteFile(disk, "flattened", GtFile(job_dict.recording_name),
                         GtContent(zarr_folders[pos], gt_sorting))
    /\ writes' = Append(writes, [dir |-> "flattened",
                                 file |-> GtFile(job_dict.recording_name)])
    /\ i' = i + 1
    /\ pos' = pos + 1
    /\ pc' = "loop"
    /\ UNCHANGED <<args, data, rng_choice, err, DEBUG, DEBUG_DURATION, MAX_RECORDINGS,
                   dirs, zarr_folders, recording, rec_end, gt_sorting, duration,
                   job_dict, reported, runs, prev_selected>>

\* Line 169
Report ==
    /\ pc = "loop"
    /\ pos > Len(zarr_folders)
    /\ reported' = {i}
    /\ pc' = "done"
    /\ UNCHANGED <<args, data, rng_choice, err, DEBUG, DEBUG_DURATION, MAX_RECORDINGS,
                   dirs, zarr_folders, pos, i, recording, rec_end, gt_sorting, duration,
                   job_dict, disk, writes, runs, prev_selected>>

\* Line 60: the script is invoked again on the same tree with the same
\* arguments; ../results keeps what the earlier invocation wrote.
Rerun ==
    /\ pc \in {"done", "failed"}
    /\ runs < MaxRuns
    /\ runs' = runs + 1
    /\ prev_selected' = IF pc = "done" \/ err \in {"LoadError", "SliceError"}
                        THEN {{zarr_folders[j] : j \in 1..Len(zarr_folders)}}
                        ELSE None
    /\ pc' = "parse"
    /\ err' = ""
    /\ DEBUG' = FALSE
    /\ DEBUG_DURATION' = 0
    /\ MAX_RECORDINGS' = None
    /\ zarr_folders' = <<>>
    /\ pos' = 1
    /\ i' = 0
    /\ recording' = [fs |-> 0, n |-> 0]
    /\ rec_end' = None
    /\ gt_sorting' = None
    /\ duration' = 0
    /\ job_dict' = None
    /\ writes' = <<>>
    /\ reported' = None
    /\ UNCHANGED <<args, data, rng_choice, dirs, disk>>

----------------------------------------------------------------------------
(* Inputs *)

A == <<"a">>

B == <<"b">>

NoBlob == [debug |-> None, debug_duration |-> None, max_recordings |-> None]

\* Discrete options and positional arguments; no --params.
Cli(sd, dbg, sdd, dd, sm, m) ==
    [params |-> "absent", blob |-> NoBlob, static_debug |-> sd, debug |-> dbg,
     static_debug_duration |-> sdd, debug_duration |-> dd,
     static_max_recordings |-> sm, max_recordings |-> m]

\* --params: kind is "json" (inline), "file" (a path) or "invalid" (neither).
Params(kind, dbg, dd, m) ==
    [params |-> kind, blob |-> [debug |-> dbg, debug_duration |-> dd, max_recordings |-> m],
     static_debug |-> None, debug |-> FALSE, static_debug_duration |-> None,
     debug_duration |-> Millis(DefaultDebugDuration),
     static_max_recordings |-> None, max_recordings |-> None]

Opt(S) == {None} \cup {{v} : v \in S}

\* Every command line argparse accepts over the given durations and caps:
\* each mutually exclusive group is given at most once.
CliArgs(durs, caps) ==
    {Cli(sd, dbg, sdd, dd, sm, m) :
        sd \in Opt({"true", "True", "false"}), dbg \in BOOLEAN,
        sdd \in Opt(durs), dd \in durs \cup {Millis(DefaultDebugDuration)},
        sm \in Opt(caps), m \in Opt(caps)}
    \ {a \in {Cli(sd, dbg, sdd, dd, sm, m) :
                 sd \in Opt({"true", "True", "false"}), dbg \in BOOLEAN,
                 sdd \in Opt(durs), dd \in durs \cup {Millis(DefaultDebugDuration)},
                 sm \in Opt(caps), m \in Opt(caps)} :
          \/ a.static_debug # None /\ a.debug
          \/ a.static_debug_duration # None /\ a.debug_duration # Millis(DefaultDebugDuration)
          \/ a.static_max_recordings # None /\ a.max_recordings # None}

ParamsArgs(durs, caps) ==
    {Params("invalid", None, None, None)}
    \cup {Params(kind, dbg, dd, m) :
             kind \in {"json", "file"}, dbg \in Opt(BOOLEAN),
             dd \in Opt(durs \cup {Millis(DefaultDebugDuration)}), m \in Opt(caps)}

\* Recordings of 40 s and of 20 s at 30 kHz.
LongRec == [fs |-> 30000, n |-> 1200000]

ShortRec == [fs |-> 30000, n |-> 600000]

\* Trees with at most maxM recording.zarr folders among the given parent
\* directories, each with or without a sorting.zarr beside it.
Trees(parents, maxM, recs) ==
    UNION {[m -> {[sorting |-> b, fs |-> r.fs, n |-> r.n] : b \in BOOLEAN, r \in recs}] :
              m \in {x \in SUBSET parents : Cardinality(x) <= maxM}}

InitWith(trees, argset) ==
    /\ data \in trees
    /\ args \in argset
    /\ rng_choice \in RngDraws(Cardinality(DOMAIN data), Resolve(args).max)
    /\ pc = "parse"
    /\ err = ""
    /\ DEBUG = FALSE
    /\ DEBUG_DURATION = 0
    /\ MAX_RECORDINGS = None
    /\ dirs = {}
    /\ zarr_folders = <<>>
    /\ pos = 1
    /\ i = 0
    /\ recording = [fs |-> 0, n |-> 0]
    /\ rec_end = None
    /\ gt_sorting = None
    /\ duration = 0
    /\ job_dict = None
    /\ disk = <<>>
    /\ writes = <<>>
    /\ reported = None
    /\ runs = 1
    /\ prev_selected = None

\* A small family on which every step of the script happens.
BaseArgs ==
    {Cli(None, FALSE, None, Millis(DefaultDebugDuration), None, None),
     Cli(None, TRUE, None, Millis(DefaultDebugDuration), None, {1}),
     Params("invalid", None, None, None),
     Params("json", None, None, None),
     Params("json", {TRUE}, {Millis(DefaultDebugDuration)}, {-1})}

InitBase == InitWith(Trees({<<A, A>>, <<A, B>>}, 2, {LongRec, ShortRec}), BaseArgs)

\* Trees of up to MaxMarkers folders at depths 0 to 2, every cap up to MaxCap,
\* with and without debug.
TreeParents == {<<>>, <<A>>, <<A, A>>, <<A, B>>, <<B, A>>}

TreeArgs ==
    {Cli(None, dbg, None, Millis(DefaultDebugDuration), None, m) :
        dbg \in BOOLEAN, m \in Opt(0..MaxCap)}

InitTrees == InitWith(Trees(TreeParents, MaxMarkers, {LongRec}), TreeArgs)

Init == InitBase \/ InitTrees

\* Every way of supplying the configuration, on trees of at most two folders.
ConfigDurations == {Millis(10)}

ConfigArgs ==
    CliArgs(ConfigDurations, (-1)..MaxCap) \cup ParamsArgs(ConfigDurations, (-1)..MaxCap)

InitConfig == InitBase \/ InitWith(Trees({<<A, A>>, <<A, B>>}, 2, {LongRec}), ConfigArgs)

\* One pair, debug on, over sampling frequencies on both sides of 200 Hz,
\* every debug duration up to MaxDurMs milliseconds and recordings shorter
\* and longer than that.
Frequencies == {1, 50, 120, 199, 200, 201, 250, 30000}

SampleCounts(fs) ==
    (0..MaxSamples) \cup {(fs * j) \div 100 + r : j \in 0..MaxSamples, r \in {0, 1}}

DebugTrees ==
    {[p \in {<<A, A>>} |-> [sorting |-> TRUE, fs |-> fs, n |-> n]] :
        fs \in Frequencies, n \in UNION {SampleCounts(f) : f \in Frequencies}}

DebugArgs == {Cli(None, TRUE, None, d, None, None) : d \in 0..MaxDurMs}

InitDebug ==
    \/ InitBase
    \/ /\ InitWith(DebugTrees, DebugArgs)
       /\ \A p \in DOMAIN data : data[p].n \in SampleCounts(data[p].fs)

\* Two folders with a sorting each, at depth 2 or 3, over names of letters
\* and underscores with at most MaxNameChars characters per path.
Alphabet == {"a", "_"}

\* Names of 1 to len characters.
Names(len) == UNION {[1..l -> Alphabet] : l \in 1..len}

\* <session>/<case> with at most MaxNameChars characters, and
\* <top>/<session>/<case> with at most MaxNameChars - 1.
NamePaths ==
    UNION {{<<s, c>> : c \in Names(MaxNameChars - Len(s))} :
              s \in Names(MaxNameChars - 1)}
    \cup UNION {UNION {{<<t, s, c>> : c \in Names(MaxNameChars - 1 - Len(t) - Len(s))} :
                          s \in Names(MaxNameChars - 2 - Len(t))} :
                   t \in Names(MaxNameChars - 3)}

NameTrees ==
    {[x \in {p, q} |-> [sorting |-> TRUE, fs |-> LongRec.fs, n |-> LongRec.n]] :
        p \in NamePaths, q \in NamePaths}

NameArgs == {Cli(None, FALSE, None, Millis(DefaultDebugDuration), None, None)}

InitNames == InitBase \/ InitWith(NameTrees, NameArgs)

Next ==
    \/ ParseArgs
    \/ ParseArgsRaises
    \/ MakeDirs
    \/ Walk
    \/ Subsample
    \/ SubsampleRaises
    \/ NoSubsample
    \/ SkipPair
    \/ NextPair
    \/ Load
    \/ LoadRaises
    \/ Truncate
    \/ TruncateRaises
    \/ NoTruncate
    \/ BuildJob
    \/ WriteRecordingsJob
    \/ WriteFlattenedJob
    \/ WriteGt
    \/ Report

Spec == Init /\ [][Next]_vars

SpecConfig == InitConfig /\ [][Next]_vars

SpecDebug == InitDebug /\ [][Next]_vars

SpecNames == InitNames /\ [][Next]_vars

NextRerun == Next \/ Rerun

SpecRerun == Init /\ [][NextRerun]_vars

----------------------------------------------------------------------------
(* Vocabulary of the properties *)

Positions == 1..Len(zarr_folders)

\* The parent directory a file on disk was generated from.
FileParent(f) ==
    IF f.file[1] = "g"
    THEN SubSeq(disk[f].folder, 1, Len(disk[f].folder) - 1)
    ELSE SubSeq(disk[f].recording_dict.folder, 1, Len(disk[f].recording_dict.folder) - 1)

\* Folders of the tree that have a sorting.zarr beside them.
ValidParents == {p \in DOMAIN data : data[p].sorting}

\* Positions of zarr_folders before position k that have a sorting.zarr.
ValidBefore(k) == {j \in 1..(k - 1) : j <= Len(zarr_folders) /\ data[zarr_folders[j]].sorting}

InLoop == pc \in {"loop", "load", "truncate", "build", "write_recordings",
                  "write_flattened", "write_gt"}

----------------------------------------------------------------------------
(* C2: a job_ or gt_ file is written only for a recording.zarr whose parent
   also holds sorting.zarr; a folder without it raises nothing and does not
   count, so the running count is the number of folders with a sorting among
   those already passed, and the reported count is their number among all
   processed folders. *)
C2_OnlyPairsWithSorting ==
    /\ \A f \in DOMAIN disk :
          FileParent(f) \in DOMAIN data /\ data[FileParent(f)].sorting
    /\ (pc = "failed" /\ err \in {"LoadError", "SliceError"})
          => data[zarr_folders[pos]].sorting
    /\ InLoop => i = Cardinality(ValidBefore(pos))
    /\ pc = "done"
          => /\ i = Cardinality({j \in Positions : data[zarr_folders[j]].sorting})
             /\ reported = {i}

\* C2 witness: a completed run that passed a folder without sorting and generated a job.
C2_Witness ==
    /\ pc = "done"
    /\ \E j \in Positions : ~data[zarr_folders[j]].sorting
    /\ i >= 1

\* C2 witness: a completed run over folders none of which has a sorting: count 0.
C2_WitnessZero ==
    /\ pc = "done"
    /\ Len(zarr_folders) >= 1
    /\ reported = {0}

----------------------------------------------------------------------------
(* C1: with a cap c configured and more than c folders with a sorting in the
   tree, a completed run generates exactly c job descriptors and reports c. *)
C1_ExactlyCapJobs ==
    (/\ pc = "done"
     /\ MAX_RECORDINGS # None
     /\ Val(MAX_RECORDINGS) >= 0
     /\ Cardinality(ValidParents) > Val(MAX_RECORDINGS))
        => /\ i = Val(MAX_RECORDINGS)
           /\ reported = {Val(MAX_RECORDINGS)}

----------------------------------------------------------------------------
EmittedNames == {NameOf(zarr_folders[j]) : j \in ValidBefore(pos)}

FilesIn(dir) == {f.file : f \in {g \in DOMAIN disk : g.dir = dir}}

(* C8: after a completed run, for every name it emitted the two job_ copies
   are equal and carry the rewritten recording_name, and the gt_ files in
   flattened are those of exactly the same names. *)
C8_CopiesIdentical ==
    pc = "done"
        => /\ \A name \in EmittedNames :
                LET r == [dir |-> "recordings", file |-> JobFile(name)]
                    f == [dir |-> "flattened", file |-> JobFile(name)]
                IN  /\ r \in DOMAIN disk
                    /\ f \in DOMAIN disk
                    /\ disk[r] = disk[f]
                    /\ disk[r].recording_name = name
           /\ FilesIn("recordings") = {JobFile(name) : name \in EmittedNames}
           /\ FilesIn("flattened") = {JobFile(name) : name \in EmittedNames}
                                         \cup {GtFile(name) : name \in EmittedNames}

\* C8 witness: a completed run that emitted at least two names.
C8_Witness == pc = "done" /\ Cardinality(EmittedNames) >= 2

----------------------------------------------------------------------------
RECURSIVE FilesOf(_)
FilesOf(folders) ==
    IF folders = <<>> THEN <<>>
    ELSE LET p == Head(folders)
             name == NameOf(p)
         IN  (IF data[p].sorting
              THEN << [dir |-> "recordings", file |-> JobFile(name)],
                      [dir |-> "flattened", file |-> JobFile(name)],
                      [dir |-> "flattened", file |-> GtFile(name)] >>
              ELSE <<>>) \o FilesOf(Tail(folders))

Failed == pc = "failed" /\ err \in {"LoadError", "SliceError"}

(* C10: pairs are processed one after another and fail-fast.  When a load or
   a truncation raises at position pos the run has stopped for good: nothing
   is reported, the run wrote exactly the three files of each earlier folder
   with a sorting, in the order recordings/job_, flattened/job_,
   flattened/gt_, and all of them are on disk.  In every state the files
   written so far come in that order, so a gt_ file written by the run has
   both job_ copies written before it. *)
C10_FailFast ==
    /\ err # "" => pc = "failed"
    /\ pc = "failed" => reported = None /\ ~ENABLED Next
    /\ Failed
          => /\ writes = FilesOf(SubSeq(zarr_folders, 1, pos - 1))
             /\ \A w \in 1..Len(writes) : writes[w] \in DOMAIN disk
    /\ \A w \in 1..Len(writes) :
          /\ w % 3 = 1 => writes[w].dir = "recordings" /\ writes[w].file[1] = "j"
          /\ w % 3 = 2 => /\ writes[w].dir = "flattened"
                          /\ writes[w].file = writes[w - 1].file
          /\ w % 3 = 0 => /\ writes[w].dir = "flattened"
                          /\ writes[w].file[1] = "g"
                          /\ SubSeq(writes[w].file, 4, Len(writes[w].file))
                                = SubSeq(writes[w - 1].file, 5, Len(writes[w - 1].file))

\* C10 witness: a load failed after an earlier pair had been written in full.
C10_Witness == Failed /\ Len(writes) >= 3 /\ pos >= 2

----------------------------------------------------------------------------
AfterTruncate == pc \in {"build", "write_recordings", "write_flattened", "write_gt"}

\* min(int(d * fs), N) of the recording as it lies in the tree.
OriginalEnd(p) == Min(Trunc(DEBUG_DURATION * data[p].fs, 1000), data[p].n)

(* C3: with debug on, the recording and the ground-truth sorting are sliced
   to the same range [0, E), E = min(int(d * fs), N) of the recording as
   loaded; the end frame of the sorting, computed from the sliced recording,
   is the end frame of the recording. *)
C3_SameEndFrame ==
    /\ (AfterTruncate /\ DEBUG)
          => /\ rec_end = {OriginalEnd(zarr_folders[pos])}
             /\ gt_sorting = rec_end
             /\ recording.n = OriginalEnd(zarr_folders[pos])
    /\ \A f \in DOMAIN disk :
          DEBUG => IF f.file[1] = "g"
                   THEN disk[f].end_frame = {OriginalEnd(FileParent(f))}
                   ELSE disk[f].recording_dict.num_samples = OriginalEnd(FileParent(f))

\* C3 witness: a recording longer than the debug duration was cut and its files written.
C3_Witness ==
    /\ DEBUG
    /\ \E f \in DOMAIN disk :
          /\ f.file[1] = "g"
          /\ Val(disk[f].end_frame) > 0
          /\ Val(disk[f].end_frame) < data[FileParent(f)].n

----------------------------------------------------------------------------
(* The emitted duration (hundredths of a second, from the truncated sample
   count) against min(d, N / fs): Deviation(p, dur) is
   |dur / 100 - min(d, N / fs)| in units of 1 / (1000 * fs) second. *)
Deviation(p, dur) ==
    Abs(10 * data[p].fs * dur - Min(DEBUG_DURATION * data[p].fs, 1000 * data[p].n))

\* d at least the full duration: the recording keeps all its samples and the
\* duration is the full duration.
Untruncated(p, n, dur) ==
    DEBUG_DURATION * data[p].fs >= 1000 * data[p].n
        => n = data[p].n /\ dur = RoundHalfEven(100 * data[p].n, data[p].fs)

----------------------------------------------------------------------------
(* Names derived for two distinct processed pairs. *)
ContainsSeparator(x) == \E j \in 1..(Len(x) - 1) : x[j] = "_" /\ x[j + 1] = "_"

SessionClean(p) ==
    ~ContainsSeparator(p[Len(p) - 1]) /\ p[Len(p) - 1][Len(p[Len(p) - 1])] # "_"

CaseClean(p) == ~ContainsSeparator(p[Len(p)]) /\ p[Len(p)][1] # "_"

Processed == {zarr_folders[j] : j \in ValidBefore(pos)}

\* C4 as claimed: the names derived for any two distinct processed
\* recording.zarr folders under the data root differ.
C4_NamesInjective ==
    pc = "done"
        => \A p, q \in Processed : p # q => NameOf(p) # NameOf(q)

\* C4 amended: the names of two distinct processed folders differ, and both
\* keep their job file, when both folders lie at <session>/<case>/recording.zarr, and either
\* no session name of the two contains "__" or ends in "_", or no case name
\* of the two contains "__" or starts with "_".
C4_NamesInjectiveInLayout ==
    pc = "done"
        => \A p, q \in Processed :
              (/\ p # q
               /\ Len(p) = 2
               /\ Len(q) = 2
               /\ \/ SessionClean(p) /\ SessionClean(q)
                  \/ CaseClean(p) /\ CaseClean(q))
                  => /\ NameOf(p) # NameOf(q)
                     /\ [dir |-> "recordings", file |-> JobFile(NameOf(p))] \in DOMAIN disk
                     /\ [dir |-> "recordings", file |-> JobFile(NameOf(q))] \in DOMAIN disk

\* C4 witness: two pairs in the layout were processed, one of them with an underscore
\* next to the separator.
C4_Witness ==
    /\ pc = "done"
    /\ \E p, q \in Processed :
          /\ p # q
          /\ Len(p) = 2
          /\ Len(q) = 2
          /\ SessionClean(p) /\ SessionClean(q)
          /\ ~CaseClean(p)

----------------------------------------------------------------------------
(* C5: two invocations on the same tree with the same cap select the same
   set of folders, whatever order os.walk yields in each. *)
C5_SameSelection ==
    (runs >= 2 /\ prev_selected # None /\ (InLoop \/ pc = "done"))
        => {zarr_folders[j] : j \in Positions} = Val(prev_selected)

----------------------------------------------------------------------------
AsksMinusOne ==
    \/ args.params = "absent"
          /\ PyOr(args.static_max_recordings, args.max_recordings) = {-1}
    \/ ParamsLoaded(args) /\ args.blob.max_recordings = {-1}

(* C6: max_recordings = -1 means unlimited however it is supplied: nothing is
   sampled, rng.choice is never asked for -1 folders, and a completed run has
   a job for every folder with a sorting. *)
C6_MinusOneUnlimited ==
    AsksMinusOne
        => /\ ~(pc = "failed" /\ err = "ValueError")
           /\ (InLoop \/ pc = "done") => Len(zarr_folders) = Cardinality(DOMAIN data)
           /\ pc = "done" => i = Cardinality(ValidParents)

----------------------------------------------------------------------------
PastParsing == pc \notin {"parse", "failed"} \/ (pc = "failed" /\ dirs # {})

(* C9: an option that is not supplied takes its default (debug False, debug
   duration 30 s, no cap) and the run goes on to discovery, on the command
   line and in a params blob that omits keys; a blob that is neither JSON
   nor a file ends the run before any folder is created or walked. *)
C9_DefaultsApply ==
    /\ (pc # "parse" /\ args.params = "invalid")
          => pc = "failed" /\ dirs = {} /\ zarr_folders = <<>>
    /\ (pc # "parse" /\ args.params # "invalid") => PastParsing
    /\ (PastParsing /\ ParamsLoaded(args))
          => /\ args.blob.debug = None => DEBUG = FALSE
             /\ args.blob.debug_duration = None
                   => DEBUG_DURATION = Millis(DefaultDebugDuration)
             /\ args.blob.max_recordings = None => MAX_RECORDINGS = None
    /\ (PastParsing /\ args.params = "absent")
          => /\ (args.static_debug = None /\ ~args.debug) => DEBUG = FALSE
             /\ args.static_debug_duration = None => DEBUG_DURATION = args.debug_duration
             /\ (args.static_max_recordings = None /\ args.max_recordings = None)
                   => MAX_RECORDINGS = None

====
